---- MODULE Spec2Model ----
(***************************************************************************)
(* Model of streamlit_app.py: the TLS results viewer.                      *)
(*                                                                         *)
(* A Python str is modelled as a sequence of one-character strings, so     *)
(* that replace, endswith, slicing, glob matching and sorting are computed *)
(* character by character.  A path is the sequence of its components as    *)
(* os.path.join receives them: <<base_dir, folder, file name>>, the base   *)
(* directory and the folder being TLA+ strings and the file name a         *)
(* character sequence.                                                     *)
(***************************************************************************)
EXTENDS Naturals, Sequences, FiniteSets, TLC

VARIABLES
    pc,            \* position of the running call or of the page script
    gmmDirExists,  \* whether the GMM-components directory exists
    listing,       \* file names of the GMM-components directory, in directory order
    subdirs,       \* paths that exist as directories (not regular files)
    files,         \* paths that exist as regular files
    name,          \* argument of sanitize_for_filename / image_paths_for_marker
    patterns,      \* argument of find_markers_from_patterns
    returned,      \* the values returned by the successive calls of the function
    config,        \* the ordered category -> patterns mapping of the page
    ci,            \* index of the category the page script is at
    markers,       \* the page script's markers of the current category
    mi,            \* index of the marker the page script is at
    log            \* what the page script has sent to the render surface

vars == <<pc, gmmDirExists, listing, subdirs, files, name, patterns,
          returned, config, ci, markers, mi, log>>

----------------------------------------------------------------------------
(* Bounds of the model *)

\* longest string given to sanitize_for_filename
MaxLen == 3

\* longest patterns list given to find_markers_from_patterns
MaxPats == 2

----------------------------------------------------------------------------
(* Strings *)

\* the characters of the model in code point order (Python compares str by
\* code point)
CharOrder ==
    << " ", "*", "-", ".", "/", "0", "1", "2", "3", "4", "5", "6", "7", "8",
       "9", ":", "?", "A", "B", "C", "D", "E", "F", "G", "I", "K", "L", "M",
       "N", "O", "P", "R", "S", "T", "X", "[", "\\", "_", "a", "b", "c", "d",
       "e", "f", "g", "h", "i", "k", "l", "m", "n", "o", "p", "r", "s", "t",
       "u", "v", "y" >>

Chars == { CharOrder[i] : i \in 1..Len(CharOrder) }

Code(ch) == CHOOSE i \in 1..Len(CharOrder) : CharOrder[i] = ch

\* s < t for two Python str
RECURSIVE StrLess(_, _)
StrLess(s, t) ==
    IF t = <<>> THEN FALSE
    ELSE IF s = <<>> THEN TRUE
    ELSE IF Head(s) = Head(t) THEN StrLess(Tail(s), Tail(t))
    ELSE Code(Head(s)) < Code(Head(t))

\* all sequences over S of length at most n
SeqsUpTo(S, n) == UNION { [1..k -> S] : k \in 0..n }

Range(s) == { s[i] : i \in 1..Len(s) }

\* s.replace(old, new) where old is one character, replacing only the first
\* occurrence
RECURSIVE ReplaceFirst(_, _, _)
ReplaceFirst(s, old, new) ==
    IF s = <<>> THEN <<>>
    ELSE IF Head(s) = old THEN new \o Tail(s)
    ELSE <<Head(s)>> \o ReplaceFirst(Tail(s), old, new)

\* s.replace(old, new) where old is one character: every occurrence, left
\* to right
RECURSIVE ReplaceAll(_, _, _)
ReplaceAll(s, old, new) ==
    IF s = <<>> THEN <<>>
    ELSE (IF Head(s) = old THEN new ELSE <<Head(s)>>)
             \o ReplaceAll(Tail(s), old, new)

str_replace(s, old, new) == ReplaceAll(s, old, new)

\* for ch in chs: out = out.replace(ch, "")
RECURSIVE RemoveEach(_, _)
RemoveEach(out, chs) ==
    IF chs = <<>> THEN out
    ELSE RemoveEach(str_replace(out, Head(chs), <<>>), Tail(chs))

sanitize_for_filename(n) ==
    LET out == str_replace(n, " ", <<"_">>)
    IN  RemoveEach(out, <<":", "/", "\\">>)

----------------------------------------------------------------------------
(* Names and paths *)

base_dir == "."

postfix == "sep10"

folder_templates(pf) ==
    [ pval_barplots   |-> "tls_pval_barplots_" \o pf,
      gmm_components  |-> "tail_3sig_byMedian_" \o pf \o "_median_plus_3mad",
      violin          |-> "tls_violin_by_tls_cluster_" \o pf,
      radius_profiles |-> "tls_radius_profiles_grouped_variation_gmmMedian_allPatients_"
                             \o pf \o "_inwardLimit2" ]

DIRS == folder_templates(postfix)

\* os.path.join(base, *parts), base being a path and parts relative names
resolve_path(base, parts) == base \o parts

\* os.path.isfile(path)
file_exists(path) == path \in files

\* os.path.basename(path), os.path.dirname(path)
basename(path) == path[Len(path)]

dirname(path) == SubSeq(path, 1, Len(path) - 1)

CLR == <<"C", "L", "R">>

DII == <<"D", "I", "I">>

\* for grp in ("CLR", "DII")
Groups == <<CLR, DII>>

gmm_png == <<"g", "m", "m", "_", "c", "o", "m", "p", "o", "n", "e", "n", "t",
             "s", ".", "p", "n", "g">>

violin_png == <<"v", "i", "o", "l", "i", "n", ".", "p", "n", "g">>

radius_png == <<"r", "a", "d", "i", "u", "s", "_", "p", "r", "o", "f", "i",
                "l", "e", ".", "p", "n", "g">>

\* f"_{grp}_gmm_components.png"
gmm_suffix(grp) == <<"_">> \o grp \o <<"_">> \o gmm_png

\* fname.endswith(end)
endswith(fname, end) ==
    /\ Len(fname) >= Len(end)
    /\ SubSeq(fname, Len(fname) - Len(end) + 1, Len(fname)) = end

\* fname[: -len(end) + 1]: one character too many is kept
StripEndShort(fname, end) == SubSeq(fname, 1, Len(fname) - Len(end) + 1)

\* fname[: -len(end)]
strip_end(fname, end) == SubSeq(fname, 1, Len(fname) - Len(end))

----------------------------------------------------------------------------
(* glob.glob *)

\* glob.has_magic: the name holds a wildcard character
has_magic(s) == \E i \in 1..Len(s) : s[i] \in {"*", "?", "["}

\* glob._ishidden
ishidden(s) == s # <<>> /\ s[1] = "."

NotHidden(s) == ~ishidden(s)

\* fnmatch of n from its character i on against p from its character j on,
\* for patterns of literal characters, '*' and '?'
RECURSIVE fnmatch_from(_, _, _, _)
fnmatch_from(n, i, p, j) ==
    IF j > Len(p) THEN i > Len(n)
    ELSE IF p[j] = "*"
         THEN fnmatch_from(n, i, p, j + 1)
                 \/ (i <= Len(n) /\ fnmatch_from(n, i + 1, p, j))
    ELSE IF p[j] = "?"
         THEN i <= Len(n) /\ fnmatch_from(n, i + 1, p, j + 1)
    ELSE i <= Len(n) /\ n[i] = p[j] /\ fnmatch_from(n, i + 1, p, j + 1)

\* fnmatch.fnmatch(n, p)
fnmatch(n, p) == fnmatch_from(n, 1, p, 1)

\* os.path.lexists(path)
lexists(path) == path \in files \cup subdirs

\* os.scandir(dir): the entries in directory order; nothing when the
\* directory does not exist (glob swallows the OSError)
scandir(dir) ==
    IF dir = <<base_dir, DIRS.gmm_components>> /\ gmmDirExists
    THEN listing
    ELSE <<>>

\* a shell-like expansion that hands back the pattern itself when nothing
\* matches it
GlobOrLiteral(c) ==
    LET names   == scandir(dirname(c))
        matched == SelectSeq(names, LAMBDA n : fnmatch(n, basename(c)))
    IN  IF matched = <<>> THEN <<c>>
        ELSE [i \in 1..Len(matched) |-> Append(dirname(c), matched[i])]

\* glob.glob(c): the paths matching c, in directory order
glob(c) ==
    LET dir == dirname(c)
        pat == basename(c)
    IN  IF ~has_magic(pat)
        THEN IF lexists(c) THEN <<c>> ELSE <<>>
        ELSE LET names   == scandir(dir)
                 visible == IF ishidden(pat) THEN names
                            ELSE SelectSeq(names, NotHidden)
                 matched == SelectSeq(visible, LAMBDA n : fnmatch(n, pat))
             IN  [i \in 1..Len(matched) |-> Append(dir, matched[i])]

----------------------------------------------------------------------------
(* find_markers_from_patterns *)

\* the strings of the set in decreasing order
RECURSIVE SortedDescending(_)
SortedDescending(S) ==
    IF S = {} THEN <<>>
    ELSE LET m == CHOOSE x \in S : \A y \in S \ {x} : StrLess(y, x)
         IN  <<m>> \o SortedDescending(S \ {m})

\* sorted(found): the strings of the set in increasing order
RECURSIVE SortedSeq(_)
SortedSeq(S) ==
    IF S = {} THEN <<>>
    ELSE LET m == CHOOSE x \in S : \A y \in S \ {x} : StrLess(x, y)
         IN  <<m>> \o SortedSeq(S \ {m})

sorted(S) == SortedSeq(S)

\* for path in glob.glob(c): the first path that ends with the suffix adds
\* its stripped name and ends the loop
RECURSIVE ScanPaths(_, _, _)
ScanPaths(ps, end, found) ==
    IF ps = <<>> THEN found
    ELSE LET fname == basename(Head(ps))
         IN  IF endswith(fname, end)
             THEN found \cup {strip_end(fname, end)}
             ELSE ScanPaths(Tail(ps), end, found)

\* for c in candidates
RECURSIVE ScanCandidates(_, _, _)
ScanCandidates(cands, end, found) ==
    IF cands = <<>> THEN found
    ELSE ScanCandidates(Tail(cands), end,
                        ScanPaths(glob(Head(cands)), end, found))

\* for grp in ("CLR", "DII")
RECURSIVE ScanGroups(_, _, _, _, _)
ScanGroups(pat, grps, bdir, gmm_dir, found) ==
    IF grps = <<>> THEN found
    ELSE LET suffix == gmm_suffix(Head(grps))
             candidates ==
                 << resolve_path(<<bdir>>, <<gmm_dir, pat \o suffix>>),
                    resolve_path(<<bdir>>,
                        <<gmm_dir, sanitize_for_filename(pat) \o suffix>>) >>
         IN  ScanGroups(pat, Tail(grps), bdir, gmm_dir,
                        ScanCandidates(candidates, suffix, found))

\* a loop over the patterns that starts from an empty set at every pattern:
\* only the last pattern counts
ScanPatternsReset(pats, bdir, gmm_dir, found) ==
    IF pats = <<>> THEN found
    ELSE ScanGroups(pats[Len(pats)], Groups, bdir, gmm_dir, {})

\* for pat in patterns
RECURSIVE ScanPatterns(_, _, _, _)
ScanPatterns(pats, bdir, gmm_dir, found) ==
    IF pats = <<>> THEN found
    ELSE ScanPatterns(Tail(pats), bdir, gmm_dir,
                      ScanGroups(Head(pats), Groups, bdir, gmm_dir, found))

find_markers_from_patterns(pats, bdir, gmm_dir) ==
    sorted(ScanPatterns(pats, bdir, gmm_dir, {}))

----------------------------------------------------------------------------
(* image_paths_for_marker *)

\* f"{prefix}_{grp}_{suffix}"
slot_name(prefix, grp, suffix) == prefix \o <<"_">> \o grp \o <<"_">> \o suffix

\* try_paths with the DII slot falling back when the CLR file is missing
TryPathsSharedCheck(bdir, folder, prefix, suffix, m_san) ==
    LET p_clr     == resolve_path(<<bdir>>, <<folder, slot_name(prefix, CLR, suffix)>>)
        p_dii     == resolve_path(<<bdir>>, <<folder, slot_name(prefix, DII, suffix)>>)
        p_clr_alt == resolve_path(<<bdir>>, <<folder, slot_name(m_san, CLR, suffix)>>)
        p_dii_alt == resolve_path(<<bdir>>, <<folder, slot_name(m_san, DII, suffix)>>)
    IN  << IF ~file_exists(p_clr) /\ file_exists(p_clr_alt)
               THEN p_clr_alt ELSE p_clr,
           IF ~file_exists(p_clr) /\ file_exists(p_dii_alt)
               THEN p_dii_alt ELSE p_dii >>

\* try_paths(folder, prefix, suffix), m_san being the enclosing function's
\* sanitized marker: the pair (p_clr, p_dii)
try_paths(bdir, folder, prefix, suffix, m_san) ==
    LET p_clr     == resolve_path(<<bdir>>, <<folder, slot_name(prefix, CLR, suffix)>>)
        p_dii     == resolve_path(<<bdir>>, <<folder, slot_name(prefix, DII, suffix)>>)
        p_clr_alt == resolve_path(<<bdir>>, <<folder, slot_name(m_san, CLR, suffix)>>)
        p_dii_alt == resolve_path(<<bdir>>, <<folder, slot_name(m_san, DII, suffix)>>)
    IN  << IF ~file_exists(p_clr) /\ file_exists(p_clr_alt)
               THEN p_clr_alt ELSE p_clr,
           IF ~file_exists(p_dii) /\ file_exists(p_dii_alt)
               THEN p_dii_alt ELSE p_dii >>

image_paths_for_marker(marker, bdir, dirs) ==
    LET m_raw == marker
        m_san == sanitize_for_filename(marker)
        gmm == try_paths(bdir, dirs.gmm_components, m_raw, gmm_png, m_san)
        vio == try_paths(bdir, dirs.violin, m_raw, violin_png, m_san)
        rad == try_paths(bdir, dirs.radius_profiles, m_raw, radius_png, m_san)
    IN  [ gmm_components |-> [CLR |-> gmm[1], DII |-> gmm[2]],
          violin         |-> [CLR |-> vio[1], DII |-> vio[2]],
          radius         |-> [CLR |-> rad[1], DII |-> rad[2]] ]

----------------------------------------------------------------------------
(* sanitize_for_filename applied to bounded inputs *)

SanChars == { " ", "_", ":", "/", "\\", "a", "b" }

InitSan ==
    /\ pc = "start"
    /\ name \in SeqsUpTo(SanChars, MaxLen)
    /\ returned = <<>>
    /\ gmmDirExists = FALSE
    /\ listing = <<>>
    /\ subdirs = {}
    /\ files = {}
    /\ patterns = <<>>
    /\ config = <<>>
    /\ ci = 0
    /\ markers = <<>>
    /\ mi = 0
    /\ log = <<>>

\* sanitize_for_filename(name)
Sanitize ==
    /\ pc = "start"
    /\ returned' = <<sanitize_for_filename(name)>>
    /\ pc' = "once"
    /\ UNCHANGED <<gmmDirExists, listing, subdirs, files, name, patterns,
                   config, ci, markers, mi, log>>

\* sanitize_for_filename applied to its own result
SanitizeAgain ==
    /\ pc = "once"
    /\ returned' = Append(returned, sanitize_for_filename(returned[1]))
    /\ pc' = "twice"
    /\ UNCHANGED <<gmmDirExists, listing, subdirs, files, name, patterns,
                   config, ci, markers, mi, log>>

NextSan == Sanitize \/ SanitizeAgain

SpecSan == InitSan /\ [][NextSan]_vars

\* the characters sanitize_for_filename removes
Removed == { ":", "/", "\\" }

NotRemoved(ch) == ch \notin Removed

\* x without the removed characters, each space turned into "_"
KeptInOrder(x) ==
    LET kept == SelectSeq(x, NotRemoved)
    IN  [i \in 1..Len(kept) |-> IF kept[i] = " " THEN "_" ELSE kept[i]]

\* C8: sanitize_for_filename is idempotent, its output holds no space, ':',
\* '/' or '\', and every other character of the input is kept in order.
C8_SanitizeIdempotent ==
    /\ Len(returned) >= 1 =>
          /\ Range(returned[1]) \cap (Removed \cup {" "}) = {}
          /\ returned[1] = KeptInOrder(name)
    /\ Len(returned) = 2 => returned[2] = returned[1]

\* a string with two spaces and a removed character has been sanitized twice
C8_Witness ==
    /\ pc = "twice"
    /\ name = <<" ", ":", " ">>
    /\ returned = << <<"_", "_">>, <<"_", "_">> >>

----------------------------------------------------------------------------
(* find_markers_from_patterns applied to bounded directories and patterns *)

EGFR == <<"E", "G", "F", "R">>

\* the file names the GMM-components directory of the model may hold: a
\* marker in both groups, two markers that one pattern matches, and a name
\* that only a sanitized pattern matches
GmmNames ==
    { EGFR \o gmm_suffix(CLR),
      EGFR \o gmm_suffix(DII),
      <<"E", "G", "F">> \o gmm_suffix(CLR),
      <<"A", "_", "B">> \o gmm_suffix(DII) }

\* the patterns of the model: a wildcard pattern matching two markers, a
\* pattern that sanitizing changes, and a literal name
PatUniverse ==
    { <<"E", "G", "F", "*">>,
      <<"A", " ", "B", ":", "*">>,
      EGFR }

Injective(s) == \A i, j \in 1..Len(s) : i # j => s[i] # s[j]

\* the orders a directory may list the names of S in
Orders(S) == { s \in [1..Cardinality(S) -> S] : Injective(s) }

GmmPath(n) == resolve_path(<<base_dir>>, <<DIRS.gmm_components, n>>)

InitDisc ==
    /\ pc = "start"
    /\ gmmDirExists \in BOOLEAN
    /\ \E S \in SUBSET GmmNames :
          /\ ~gmmDirExists => S = {}
          /\ listing \in Orders(S)
          /\ files = { GmmPath(n) : n \in S }
    /\ subdirs = {}
    /\ patterns \in SeqsUpTo(PatUniverse, MaxPats)
    /\ returned = <<>>
    /\ name = <<>>
    /\ config = <<>>
    /\ ci = 0
    /\ markers = <<>>
    /\ mi = 0
    /\ log = <<>>

\* find_markers_from_patterns(patterns, base_dir, DIRS["gmm_components"])
Discover ==
    /\ pc = "start"
    /\ returned' = <<find_markers_from_patterns(patterns, base_dir,
                                                DIRS.gmm_components)>>
    /\ pc' = "found"
    /\ UNCHANGED <<gmmDirExists, listing, subdirs, files, name, patterns,
                   config, ci, markers, mi, log>>

\* s with its elements at i and i + 1 exchanged
SwapAt(s, i) ==
    [k \in 1..Len(s) |-> IF k = i THEN s[i + 1]
                         ELSE IF k = i + 1 THEN s[i] ELSE s[k]]

\* the directory lists the same names in another order (any order, by
\* repeated exchanges): the contents of the filesystem do not change
Relist ==
    /\ pc \in {"found", "relisted"}
    /\ \E i \in 1..(Len(listing) - 1) : listing' = SwapAt(listing, i)
    /\ pc' = "relisted"
    /\ UNCHANGED <<gmmDirExists, subdirs, files, name, patterns, returned,
                   config, ci, markers, mi, log>>

\* a second call with the same arguments
DiscoverAgain ==
    /\ pc \in {"found", "relisted"}
    /\ returned' = Append(returned,
                          find_markers_from_patterns(patterns, base_dir,
                                                     DIRS.gmm_components))
    /\ pc' = "again"
    /\ UNCHANGED <<gmmDirExists, listing, subdirs, files, name, patterns,
                   config, ci, markers, mi, log>>

NextDisc == Discover \/ Relist \/ DiscoverAgain

SpecDisc == InitDisc /\ [][NextDisc]_vars

\* the result of the call made in the current state of the directory
LastReturned == returned[Len(returned)]

Called == pc \in {"found", "again"}

\* every stripped name of a file that one of the patterns, raw or sanitized,
\* matches in one of the two groups
AllMatches(pats) ==
    UNION { UNION { { strip_end(basename(path), gmm_suffix(g)) :
                        path \in Range(glob(GmmPath(pat \o gmm_suffix(g))))
                           \cup Range(glob(GmmPath(sanitize_for_filename(pat)
                                                     \o gmm_suffix(g)))) } :
                    g \in Range(Groups) } :
            pat \in Range(pats) }

\* C1: the returned markers are exactly the stripped names of all the files
\* matching a pattern (raw or sanitized) in a group: stopping at the first
\* match of a glob candidate loses nothing.
C1_AllMatchesReturned ==
    Called => LastReturned = sorted(AllMatches(patterns))

\* C4: any patterns list with the same patterns, in any order and with any
\* repetition, gives the returned sequence on the same filesystem state.
C4_OrderIndependent ==
    Called =>
        \A q \in SeqsUpTo(Range(patterns), MaxPats) :
            Range(q) = Range(patterns) =>
                find_markers_from_patterns(q, base_dir, DIRS.gmm_components)
                    = LastReturned

\* two different patterns were given, both matching files, and the call
\* returned two markers
C4_Witness ==
    /\ pc = "found"
    /\ patterns = << <<"A", " ", "B", ":", "*">>, <<"E", "G", "F", "*">> >>
    /\ Len(returned[1]) = 2

\* C5: the returned sequence is strictly increasing: sorted, and a marker
\* matched through both groups, several patterns or both candidates appears
\* once.
C5_StrictlyIncreasing ==
    \A k \in 1..Len(returned) :
        \A i, j \in 1..Len(returned[k]) :
            i < j => StrLess(returned[k][i], returned[k][j])

\* EGFR files of both groups and a second marker found, the patterns given
\* in decreasing order: EGFR is returned once, last
C5_Witness ==
    /\ pc = "found"
    /\ listing = << EGFR \o gmm_suffix(CLR), <<"A", "_", "B">> \o gmm_suffix(DII),
                    EGFR \o gmm_suffix(DII) >>
    /\ patterns = << <<"A", " ", "B", ":", "*">>, EGFR >>
    /\ returned[1] = << <<"A", "_", "B">>, EGFR >>

\* C6: two calls with the same arguments on the same directory contents
\* return the same markers, whatever order the directory is listed in.
C6_SameResultTwice ==
    Len(returned) = 2 => returned[1] = returned[2]

\* C7: an absent or empty GMM-components directory gives the empty sequence.
C7_EmptyWhenNoFiles ==
    (~gmmDirExists \/ listing = <<>>) =>
        \A k \in 1..Len(returned) : returned[k] = <<>>

\* the directory is absent and a call with two patterns has returned
C7_Witness ==
    /\ pc = "found"
    /\ ~gmmDirExists
    /\ Len(patterns) = 2
    /\ returned = << <<>> >>

----------------------------------------------------------------------------
(* image_paths_for_marker applied to bounded markers and directories *)

\* the markers of the model: one that sanitizing keeps and two it changes
ResMarkers == { EGFR, <<"A", " ", "B">>, <<"A", ":", "B">> }

\* the plot kinds: key of the result, folder and file name suffix
Kinds ==
    { [key |-> "gmm_components", folder |-> DIRS.gmm_components, png |-> gmm_png],
      [key |-> "violin",         folder |-> DIRS.violin,         png |-> violin_png],
      [key |-> "radius",         folder |-> DIRS.radius_profiles, png |-> radius_png] }

GroupKey(grp) == IF grp = CLR THEN "CLR" ELSE "DII"

\* the path of the file of marker name m for a plot kind and a group
SlotPath(m, kind, grp) == <<base_dir, kind.folder, slot_name(m, grp, kind.png)>>

\* the files the resolution of marker m can look at
SlotFiles(m) ==
    { SlotPath(n, kind, grp) :
        n \in {m, sanitize_for_filename(m)}, kind \in Kinds, grp \in Range(Groups) }

InitRes ==
    /\ pc = "start"
    /\ name \in ResMarkers
    /\ files \in SUBSET SlotFiles(name)
    /\ gmmDirExists = TRUE
    /\ listing = <<>>
    /\ subdirs = {}
    /\ patterns = <<>>
    /\ returned = <<>>
    /\ config = <<>>
    /\ ci = 0
    /\ markers = <<>>
    /\ mi = 0
    /\ log = <<>>

\* image_paths_for_marker(name, base_dir, DIRS)
Resolve ==
    /\ pc = "start"
    /\ returned' = <<image_paths_for_marker(name, base_dir, DIRS)>>
    /\ pc' = "resolved"
    /\ UNCHANGED <<gmmDirExists, listing, subdirs, files, name, patterns,
                   config, ci, markers, mi, log>>

\* a second call with the same arguments
ResolveAgain ==
    /\ pc = "resolved"
    /\ returned' = Append(returned, image_paths_for_marker(name, base_dir, DIRS))
    /\ pc' = "again"
    /\ UNCHANGED <<gmmDirExists, listing, subdirs, files, name, patterns,
                   config, ci, markers, mi, log>>

NextRes == Resolve \/ ResolveAgain

SpecRes == InitRes /\ [][NextRes]_vars

\* C2: six paths are returned and each slot is decided by its own two files:
\* the raw-name path if it exists, else the sanitized-name path if it exists,
\* else the raw-name path; so the returned path of a slot exists iff the
\* raw-name or the sanitized-name file of that slot exists.
C2_SlotsIndependent ==
    \A k \in 1..Len(returned) :
        /\ DOMAIN returned[k] = { kind.key : kind \in Kinds }
        /\ \A kind \in Kinds :
              /\ DOMAIN returned[k][kind.key] = {"CLR", "DII"}
              /\ \A grp \in Range(Groups) :
                    LET raw == SlotPath(name, kind, grp)
                        san == SlotPath(sanitize_for_filename(name), kind, grp)
                        got == returned[k][kind.key][GroupKey(grp)]
                    IN  /\ got = IF raw \in files THEN raw
                                 ELSE IF san \in files THEN san ELSE raw
                        /\ got \in files <=> (raw \in files \/ san \in files)

\* only the sanitized-name violin file of group DII exists: that slot alone
\* is returned as an existing path, the sanitized one
C2_Witness ==
    /\ pc = "resolved"
    /\ name = <<"A", " ", "B">>
    /\ files = { <<base_dir, DIRS.violin,
                   slot_name(<<"A", "_", "B">>, DII, violin_png)>> }
    /\ returned[1].violin.DII \in files
    /\ returned[1].violin.CLR \notin files
    /\ returned[1].gmm_components.DII \notin files
    /\ returned[1].radius.DII \notin files

----------------------------------------------------------------------------
(* The page script: one render pass *)

MARKER_GROUPS ==
    <<
      [ label |-> "EGFR marker",
        patterns |->
           << <<"E", "G", "F", "R", "*">> >> ],
      [ label |-> "Macrophages markers",
        patterns |->
           << <<"C", "D", "1", "1", "b", "*">>,
              <<"C", "D", "1", "1", "c", "*">>,
              <<"C", "D", "6", "8", "*">>,
              <<"C", "D", "1", "6", "3", "*">> >> ],
      [ label |-> "NK markers",
        patterns |->
           << <<"C", "D", "5", "6", "*">>,
              <<"C", "D", "5", "7", "*">> >> ],
      [ label |-> "Phagocytes markers",
        patterns |->
           << <<"B", "C", "L", "-", "2", "*">> >> ],
      [ label |-> "Proliferation markers",
        patterns |->
           << <<"K", "i", "6", "7", "*">> >> ],
      [ label |-> "Stroma markers",
        patterns |->
           << <<"a", "S", "M", "A", "*">>,
              <<"b", "e", "t", "a", "-", "c", "a", "t", "e", "n", "i", "n", "*">>,
              <<"M", "M", "P", "9", "*">>,
              <<"M", "M", "P", "1", "2", "*">>,
              <<"C", "D", "4", "4", "*">>,
              <<"G", "F", "A", "P", "*">>,
              <<"C", "D", "1", "5", "*">>,
              <<"C", "o", "l", "l", "a", "g", "e", "n", "*">> >> ],
      [ label |-> "T cell markers",
        patterns |->
           << <<"C", "D", "1", "9", "4", "*">>,
              <<"G", "A", "T", "A", "3", "*">>,
              <<"P", "D", "1", "*">>,
              <<"I", "C", "O", "S", "*">>,
              <<"L", "A", "G", "3", "*">>,
              <<"F", "O", "X", "P", "3", "*">> >> ],
      [ label |-> "Vasculatures markers",
        patterns |->
           << <<"C", "D", "3", "1", "*">>,
              <<"C", "D", "3", "4", "*">>,
              <<"C", "D", "4", "4", "*">> >> ]
    >>

\* "_pvalue_barplot_kruskal.png"
pvalue_png == <<"_", "p", "v", "a", "l", "u", "e", "_", "b", "a", "r", "p", "l", "o", "t", "_", "k", "r", "u", "s", "k", "a", "l", ".", "p", "n", "g">>

nascent == <<"n", "a", "s", "c", "e", "n", "t">>

intermediate == <<"i", "n", "t", "e", "r", "m", "e", "d", "i", "a", "t", "e">>

mature == <<"m", "a", "t", "u", "r", "e">>

clr_files ==
    << CLR \o <<"_">> \o nascent \o pvalue_png,
       CLR \o <<"_">> \o intermediate \o pvalue_png,
       CLR \o <<"_">> \o mature \o pvalue_png >>

dii_files ==
    << DII \o <<"_">> \o nascent \o pvalue_png,
       DII \o <<"_">> \o intermediate \o pvalue_png >>

pval_dir == resolve_path(<<base_dir>>, <<DIRS.pval_barplots>>)

\* one call on the render surface: what is drawn, inside which category's
\* expander ("" outside), for which marker (<<>> when none), from which path
\* (<<>> when none)
Ev(ev, cat, marker, path) ==
    [ev |-> ev, cat |-> cat, marker |-> marker, path |-> path]

\* for i, fname in enumerate(fnames): the image, or the "Missing" info
RECURSIVE BarplotEvents(_)
BarplotEvents(fnames) ==
    IF fnames = <<>> THEN <<>>
    ELSE LET path == resolve_path(pval_dir, <<Head(fnames)>>)
         IN  << IF file_exists(path) THEN Ev("image", "", <<>>, path)
                ELSE Ev("info_missing", "", <<>>, path) >>
                 \o BarplotEvents(Tail(fnames))

\* if file_exists(p): st.image(p, ...), for the two groups of a column
ColumnEvents(cat, marker, by_group) ==
    (IF file_exists(by_group.CLR)
        THEN <<Ev("image", cat, marker, by_group.CLR)>> ELSE <<>>)
    \o (IF file_exists(by_group.DII)
        THEN <<Ev("image", cat, marker, by_group.DII)>> ELSE <<>>)

\* the body of "for marker in markers"
MarkerEvents(cat, marker) ==
    LET p == image_paths_for_marker(marker, base_dir, DIRS)
    IN  <<Ev("subheader", cat, marker, <<>>)>>
        \o <<Ev("caption", cat, marker, <<>>)>>
        \o ColumnEvents(cat, marker, p.gmm_components)
        \o <<Ev("caption", cat, marker, <<>>)>>
        \o ColumnEvents(cat, marker, p.violin)
        \o <<Ev("caption", cat, marker, <<>>)>>
        \o ColumnEvents(cat, marker, p.radius)
        \o <<Ev("markdown", cat, marker, <<>>)>>

\* a loop over the categories that an empty category ends
break_from(i, n) == n + 1

\* "continue": the loop goes on with the category after category i of n
continue_from(i, n) == i + 1

\* the position of the script when the category loop is at index i of n
LoopPc(i, n) == IF i > n THEN "done" ELSE "categories"

\* the page as edited by hand: a category whose patterns list is empty and
\* one whose patterns are not in sorted order, one of them with a space
EditedGroups ==
    << [ label |-> "Edited", patterns |-> <<>> ],
       [ label |-> "EGFR marker",
         patterns |-> << <<"E", "G", "F", "R", "*">>, <<"A", " ", "B", "*">> >> ] >>

Configs == { MARKER_GROUPS, EditedGroups }

CD68 == <<"C", "D", "6", "8">>

\* the entries the GMM-components directory may hold in a render pass
RenderGmmNames ==
    { EGFR \o gmm_suffix(CLR),
      EGFR \o gmm_suffix(DII),
      CD68 \o gmm_suffix(DII),
      <<"A", " ", "B">> \o gmm_suffix(CLR) }

\* the entries that may be directories instead of regular files
RenderDirNames == { EGFR \o gmm_suffix(DII) }

\* the violin file that may exist in a render pass, under a sanitized name
RenderOtherFiles ==
    { <<base_dir, DIRS.violin, slot_name(<<"A", "_", "B">>, CLR, violin_png)>> }

\* the p-value barplots that may exist in a render pass
RenderPvalFiles ==
    { resolve_path(pval_dir, <<clr_files[1]>>),
      resolve_path(pval_dir, <<dii_files[2]>>) }

InitRender ==
    /\ pc = "clr_barplots"
    /\ config \in Configs
    /\ gmmDirExists \in BOOLEAN
    /\ \E S \in SUBSET RenderGmmNames :
       \E D \in SUBSET (S \cap RenderDirNames) :
       \E O \in SUBSET (RenderOtherFiles \cup RenderPvalFiles) :
          /\ ~gmmDirExists => S = {}
          /\ listing \in Orders(S)
          /\ subdirs = { GmmPath(n) : n \in D }
          /\ files = { GmmPath(n) : n \in S \ D } \cup O
    /\ ci = 1
    /\ markers = <<>>
    /\ mi = 0
    /\ log = <<>>
    /\ name = <<>>
    /\ patterns = <<>>
    /\ returned = <<>>

\* for i, fname in enumerate(clr_files)
RenderClrBarplots ==
    /\ pc = "clr_barplots"
    /\ log' = log \o BarplotEvents(clr_files)
    /\ pc' = "dii_barplots"
    /\ UNCHANGED <<gmmDirExists, listing, subdirs, files, name, patterns,
                   returned, config, ci, markers, mi>>

\* for i, fname in enumerate(dii_files), then the divider and the header
RenderDiiBarplots ==
    /\ pc = "dii_barplots"
    /\ log' = log \o BarplotEvents(dii_files)
    /\ pc' = LoopPc(ci, Len(config))
    /\ UNCHANGED <<gmmDirExists, listing, subdirs, files, name, patterns,
                   returned, config, ci, markers, mi>>

\* the head of "for category, patterns in MARKER_GROUPS.items()": the
\* expander, the discovery, and the warning of a category without markers
BeginCategory ==
    /\ pc = "categories"
    /\ LET cat   == config[ci].label
           found == find_markers_from_patterns(config[ci].patterns, base_dir,
                                               DIRS.gmm_components)
           head  == << Ev("expander", cat, <<>>, <<>>),
                       Ev("markdown", cat, <<>>, <<>>) >>
       IN  /\ markers' = found
           /\ IF found = <<>>
              THEN /\ log' = log \o head \o <<Ev("warning", cat, <<>>, <<>>)>>
                   /\ ci' = continue_from(ci, Len(config))
                   /\ pc' = LoopPc(ci', Len(config))
                   /\ mi' = 0
              ELSE /\ log' = log \o head
                   /\ ci' = ci
                   /\ pc' = "markers"
                   /\ mi' = 1
    /\ UNCHANGED <<gmmDirExists, listing, subdirs, files, name, patterns,
                   returned, config>>

\* one pass of "for marker in markers"
RenderMarker ==
    /\ pc = "markers"
    /\ log' = log \o MarkerEvents(config[ci].label, markers[mi])
    /\ IF mi < Len(markers)
       THEN /\ mi' = mi + 1
            /\ UNCHANGED <<pc, ci>>
       ELSE /\ mi' = 0
            /\ ci' = ci + 1
            /\ pc' = LoopPc(ci', Len(config))
    /\ UNCHANGED <<gmmDirExists, listing, subdirs, files, name, patterns,
                   returned, config, markers>>

NextRender ==
    RenderClrBarplots \/ RenderDiiBarplots \/ BeginCategory \/ RenderMarker

SpecRender == InitRender /\ [][NextRender]_vars

\* the calls that open a category, warn about it or open a marker subsection
IsOutline(e) == e.ev \in {"expander", "warning", "subheader"}

Outline(events) ==
    LET sel == SelectSeq(events, IsOutline)
    IN  [i \in 1..Len(sel) |-> <<sel[i].ev, sel[i].cat, sel[i].marker>>]

\* what the categories from index i on must give: per category, in the order
\* of the configuration, its expander, then one warning if discovery finds no
\* marker, else one subsection per discovered marker in the returned order
RECURSIVE ExpectedOutline(_, _)
ExpectedOutline(cfg, i) ==
    IF i > Len(cfg) THEN <<>>
    ELSE LET cat   == cfg[i].label
             found == find_markers_from_patterns(cfg[i].patterns, base_dir,
                                                 DIRS.gmm_components)
         IN  << <<"expander", cat, <<>>>> >>
             \o (IF found = <<>> THEN << <<"warning", cat, <<>>>> >>
                 ELSE [k \in 1..Len(found) |-> <<"subheader", cat, found[k]>>])
             \o ExpectedOutline(cfg, i + 1)

IsPrefix(s, t) == Len(s) <= Len(t) /\ s = SubSeq(t, 1, Len(s))

\* the script is at a statement it can execute
CanStep ==
    \/ pc \in {"clr_barplots", "dii_barplots"}
    \/ pc = "categories" /\ ci \in 1..Len(config)
    \/ pc = "markers" /\ ci \in 1..Len(config) /\ mi \in 1..Len(markers)

\* C9: the pass visits every category once, in configuration order, to the
\* end of the list: a category without markers gives one warning and no
\* subsection and does not stop the later ones; a category with markers gives
\* one subsection per marker in the order discovery returned.
C9_EveryCategoryInOrder ==
    /\ IsPrefix(Outline(log), ExpectedOutline(config, 1))
    /\ pc = "done" => Outline(log) = ExpectedOutline(config, 1)
    /\ pc # "done" => CanStep

\* a finished pass over a page whose first category has no pattern and whose
\* second one has two markers, discovered from patterns in decreasing order
C9_Witness ==
    /\ pc = "done"
    /\ config = EditedGroups
    /\ Outline(log) =
          << <<"expander", "Edited", <<>>>>,
             <<"warning", "Edited", <<>>>>,
             <<"expander", "EGFR marker", <<>>>>,
             <<"subheader", "EGFR marker", <<"A", " ", "B">>>>,
             <<"subheader", "EGFR marker", EGFR>> >>

\* the GMM-components directory holds only regular files
OnlyRegularFiles == subdirs = {}

\* C10: on a directory of regular files only, every discovered marker has an
\* existing gmm_components path in at least one group, and every marker
\* subsection of the pass shows at least one gmm_components image.
C10_DiscoveredMarkerHasImage ==
    OnlyRegularFiles =>
        /\ \A k \in 1..Len(markers) :
              LET p == image_paths_for_marker(markers[k], base_dir, DIRS)
              IN  file_exists(p.gmm_components.CLR)
                      \/ file_exists(p.gmm_components.DII)
        /\ \A i \in 1..Len(log) :
              log[i].ev = "subheader" =>
                  \E j \in (i + 1)..Len(log) :
                      /\ log[j].ev = "image"
                      /\ log[j].marker = log[i].marker
                      /\ log[j].path[2] = DIRS.gmm_components
                      /\ \A h \in (i + 1)..j : log[h].ev # "subheader"

\* a finished pass that showed the subsection of a marker whose name holds a
\* space, with its gmm_components image of group CLR
C10_Witness ==
    /\ pc = "done"
    /\ OnlyRegularFiles
    /\ \E i \in 1..Len(log) :
          /\ log[i].ev = "image"
          /\ log[i].marker = <<"A", " ", "B">>
          /\ log[i].path = GmmPath(<<"A", " ", "B">> \o gmm_suffix(CLR))

\* the paths of the artifacts the pass looked for: the five barplots and the
\* six slots of every marker it opened a subsection for
SoughtPaths ==
    { resolve_path(pval_dir, <<f>>) : f \in Range(clr_files) \cup Range(dii_files) }
    \cup UNION { { image_paths_for_marker(log[i].marker, base_dir, DIRS)[kind.key][g] :
                      kind \in Kinds, g \in {"CLR", "DII"} } :
                  i \in { h \in 1..Len(log) : log[h].ev = "subheader" } }

\* C3: at the end of a pass, every artifact whose resolved path does not
\* exist has been reported to the render surface as missing.
C3_MissingReported ==
    pc = "done" =>
        \A path \in SoughtPaths :
            ~file_exists(path) =>
                \E i \in 1..Len(log) :
                    log[i].ev = "info_missing" /\ log[i].path = path

\* the part of C3 the script does: every missing barplot is reported
PvalMissingReported ==
    pc = "done" =>
        \A f \in Range(clr_files) \cup Range(dii_files) :
            ~file_exists(resolve_path(pval_dir, <<f>>)) =>
                \E i \in 1..Len(log) :
                    /\ log[i].ev = "info_missing"
                    /\ log[i].path = resolve_path(pval_dir, <<f>>)

====
